---- MODULE Spec2Model ----
(***************************************************************************)
(* verysmallgrad: a reverse-mode automatic-differentiation engine.         *)
(*                                                                         *)
(*   src/src/tensor.hpp   Tensor: dense row-major buffer with a shape      *)
(*   src/src/engine.hpp   Value:  graph node over Tensor (tensor engine)   *)
(*   src/engine.hpp       Value:  graph node over double (scalar engine)   *)
(*   src/src/tests.cpp    the test program of the tensor engine            *)
(*   src/main.cpp         the program of the scalar engine                 *)
(*                                                                         *)
(* A double is modelled as an exact rational <<n, d>> in lowest terms,     *)
(* d > 0; operations that would leave the finite doubles (x / 0,           *)
(* pow(0, -1)) are kept out by the guards of the actions.  Sequences are   *)
(* 1-based here where the C++ vectors are 0-based: C++ index i is          *)
(* position i + 1.  The asserts of tensor.hpp are live (tests.cpp uses     *)
(* assert as its test mechanism and never defines NDEBUG).                 *)
(***************************************************************************)
EXTENDS Integers, Sequences, FiniteSets, TLC

VARIABLES
  tthis,    \* SpecTensor: the Tensor a member function is called on
  tother,   \* SpecTensor: the Tensor argument of the call
  tcall,    \* SpecTensor: the call made, with its plain arguments
  tres,     \* SpecTensor: what the call returned, threw or left in *this
  nodes,    \* the Value objects made so far, in order of construction; a
            \* ValuePtr / Value* is a position in this sequence
  call,     \* the last engine call made, with its arguments and its result
  fault,    \* "none", or how the process ended (a failed assert, a throw)
  ncalls,   \* the number of graph functions and params() called so far
  npass,    \* the number of backwards() and zeroAllGrads() calls so far;
            \* SpecScalar: of member calls and _grad assignments
  net       \* SpecNN: the _layers of the network made, each Layer the
            \* sequence of its Neurons (<<>> before it is made)

tvars == <<tthis, tother, tcall, tres>>

gvars == <<nodes, call, fault, ncalls, npass>>

vars == <<tthis, tother, tcall, tres, nodes, call, fault, ncalls, npass, net>>

----------------------------------------------------------------------------
(* Bounds of the model.                                                    *)

\* dimension sizes of the tensors drawn as inputs are 1..MaxDim
MaxDim == 3
\* ranks of the tensors drawn as inputs are 1..MaxRank
MaxRank == 2
\* at most MaxCalls graph functions (make, operator+, ..., sum) and params()
\* are called
MaxCalls == 3
\* a Layer has 1..MaxWidth inputs and 1..MaxWidth neurons
MaxWidth == 2
\* at most MaxPasses calls of backwards() and zeroAllGrads() are made
\* (SpecScalar: of zeroGrad(), backwardsOnce(), backwards(), _grad = 1.0)
MaxPasses == 2

----------------------------------------------------------------------------
(* double arithmetic, as exact rationals                                   *)

Abs(x) == IF x < 0 THEN -x ELSE x

RECURSIVE Gcd(_, _)
Gcd(a, b) == IF b = 0 THEN a ELSE Gcd(b, a % b)

\* the double n/d (d # 0), in lowest terms with a positive denominator
Frac(n, d) ==
  LET s == IF d < 0 THEN -1 ELSE 1
      g == Gcd(Abs(n), Abs(d))
  IN  <<(s * n) \div g, (s * d) \div g>>

\* the double of an integer literal
R(n) == <<n, 1>>

dAdd(x, y) == Frac(x[1] * y[2] + y[1] * x[2], x[2] * y[2])
dSub(x, y) == Frac(x[1] * y[2] - y[1] * x[2], x[2] * y[2])
dMul(x, y) == Frac(x[1] * y[1], x[2] * y[2])
\* x / y, for y # 0
dDiv(x, y) == Frac(x[1] * y[2], x[2] * y[1])
\* x > 0.0
dPositive(x) == x[1] > 0
\* double(bool)
dBool(b) == IF b THEN R(1) ELSE R(0)

\* std::pow(x, p) for an integral exponent p (x # 0 when p < 0)
RECURSIVE dPow(_, _)
dPow(x, p) ==
  IF p = 0 THEN R(1)
  ELSE IF p < 0 THEN dDiv(R(1), dPow(x, -p))
  ELSE dMul(x, dPow(x, p - 1))

----------------------------------------------------------------------------
(* Tensor (src/src/tensor.hpp)                                             *)

\* what a call yields instead of a Tensor
RuntimeError == [error |-> "runtime_error"]
AssertFailed == [error |-> "assert"]

IsTensor(r) == "data" \in DOMAIN r

\* the copy of a std::vector: the same elements, as a sequence of its own
copy(v) == SubSeq(v, 1, Len(v))

\* getSize: the product of the dimensions
RECURSIVE getSize(_)
getSize(shape) ==
  IF shape = <<>> THEN 1 ELSE Head(shape) * getSize(Tail(shape))

\* buildStrides: strides.back() = 1; strides[i] = strides[i+1] * _shape[i]
RECURSIVE strideAt(_, _)
strideAt(shape, i) ==
  IF i = Len(shape) THEN 1 ELSE strideAt(shape, i + 1) * shape[i]

buildStrides(shape) == copy([i \in 1..Len(shape) |-> strideAt(shape, i)])

\* Tensor(data, shape) without its size check
TensorUnchecked(data, shape) ==
  [data |-> copy(data), shape |-> copy(shape), strides |-> buildStrides(shape)]

\* Tensor(data, shape): throws when the sizes differ
Tensor(data, shape) ==
  IF getSize(shape) # Len(data)
  THEN RuntimeError
  ELSE [data |-> copy(data), shape |-> copy(shape), strides |-> buildStrides(shape)]

\* Tensor(double)
TensorOfDouble(value) ==
  [data |-> <<value>>, shape |-> <<1>>, strides |-> <<1>>]

\* getStride(dim), dim 0-based
getStride(t, dim) == t.strides[dim + 1]

\* _data[i] (i 0-based); a read past the buffer is undefined and yields g
At(data, i, g) == IF i + 1 \in 1..Len(data) THEN data[i + 1] ELSE g

\* apply(fn): the buffer of fn(element, index) for every element, in order,
\* with the same shape; mapped is that buffer, which the caller's lambda
\* gives as a function of the position
apply(t, mapped) ==
  Tensor([i \in 1..Len(t.data) |-> mapped[i]], t.shape)

\* pos of operator[]: the sum of index * stride over the given indices
RECURSIVE indexPos(_, _, _)
indexPos(t, indices, k) ==
  IF k = 0 THEN 0
  ELSE indexPos(t, indices, k - 1) + indices[k] * getStride(t, k - 1)

\* operator[](indices), Len(indices) <= rank
index(t, indices, g) ==
  LET pos == indexPos(t, indices, Len(indices))
  IN  IF Len(indices) = Len(t.shape)
      THEN Tensor(<<At(t.data, pos, g)>>, <<1>>)
      ELSE LET shape == SubSeq(t.shape, Len(indices) + 1, Len(t.shape))
               size  == getSize(shape)
           IN  Tensor([i \in 1..size |-> At(t.data, pos + i - 1, g)], shape)

\* element()
element(t) == IF Len(t.data) # 1 THEN RuntimeError ELSE t.data[1]

\* view(shape)
view(t, shape) == Tensor(t.data, shape)

\* operator=(const Tensor&)
assign(t, other) ==
  [data |-> other.data, shape |-> other.shape, strides |-> other.strides]

\* operator=(double)
assignDouble(t, value) ==
  [data |-> <<value>>, shape |-> <<1>>, strides |-> <<1>>]

\* the arithmetic of the operator named op
arith(op, x, y) ==
  CASE op = "+" -> dAdd(x, y)
    [] op = "*" -> dMul(x, y)
    [] op = "/" -> dDiv(x, y)
    [] op = "-" -> dSub(x, y)

\* operator+, operator*, operator/, operator- with a Tensor operand
elementwise(op, t, other, g) ==
  apply(t, [k \in 1..Len(t.data) |-> arith(op, t.data[k], At(other.data, k - 1, g))])

\* operator+=, *=, /=, -= with a Tensor operand: shape and strides are kept
\* and _data replaced
elementwiseEq(op, t, other, g) ==
  [t EXCEPT !.data = elementwise(op, t, other, g).data]

\* operator+, operator*, operator/, operator- with a double operand
elementwiseD(op, t, value) ==
  apply(t, [k \in 1..Len(t.data) |-> arith(op, t.data[k], value)])

\* operator+=, *=, /=, -= with a double operand
elementwiseEqD(op, t, value) ==
  [t EXCEPT !.data = elementwiseD(op, t, value).data]

\* sum(): a double
RECURSIVE sumUpTo(_, _)
sumUpTo(data, n) == IF n = 0 THEN R(0) ELSE dAdd(sumUpTo(data, n - 1), data[n])

sum(t) == sumUpTo(t.data, Len(t.data))

\* relu(), power(value)
relu(t)         == apply(t, [k \in 1..Len(t.data) |-> IF dPositive(t.data[k]) THEN t.data[k] ELSE R(0)])
power(t, value) == apply(t, [k \in 1..Len(t.data) |-> dPow(t.data[k], value)])

\* fill, zeros, ones, single
fill(shape, value) == Tensor([i \in 1..getSize(shape) |-> value], shape)
zeros(shape)       == fill(shape, R(0))
ones(shape)        == fill(shape, R(1))
single(value)      == Tensor(<<value>>, <<1>>)

\* the inner loop of matmul: sum over k of _data[i*_shape[1] + k] *
\* other._data[k*other._shape[1] + j]
RECURSIVE matmulCell(_, _, _, _, _, _)
matmulCell(t, other, i, j, k, g) ==
  IF k = 0 THEN R(0)
  ELSE dAdd(matmulCell(t, other, i, j, k - 1, g),
            dMul(At(t.data, i * t.shape[2] + (k - 1), g),
                 At(other.data, (k - 1) * other.shape[2] + j, g)))

\* matmul(other): two asserts, then the row-by-column product
matmul(t, other, g) ==
  IF Len(t.shape) # 2 THEN AssertFailed
  ELSE IF other.shape # t.shape THEN AssertFailed
  ELSE LET rows == t.shape[1]
           cols == other.shape[2]
       IN  Tensor([p \in 1..(rows * cols) |->
                     matmulCell(t, other, (p - 1) \div cols, (p - 1) % cols,
                                t.shape[2], g)],
                  <<rows, cols>>)

----------------------------------------------------------------------------
(* SpecTensor: one call of a Tensor member on inputs drawn from a pool     *)

\* the shapes of the input tensors: every rank 1..MaxRank, sizes 1..MaxDim
Shapes == UNION {[1..r -> 1..MaxDim] : r \in 1..MaxRank}

\* two fillings of a buffer of n doubles: -1, 0, 1, ... and 1, 2, 3, ...
Ramp(n)  == [i \in 1..n |-> R(i - 2)]
Count(n) == [i \in 1..n |-> R(i)]

Pool ==
  {Tensor(Ramp(getSize(s)), s) : s \in Shapes}
    \cup {Tensor(Count(getSize(s)), s) : s \in Shapes}

\* the double arguments of the calls, and what a read past a buffer may yield
Doubles == {R(-3), R(2)}
Garbage == {R(0), R(5)}
Exponents == {-1, 2}

\* the in-bounds index lists of length 1..rank for a shape
Indices(shape) ==
  UNION {{ix \in [1..k -> 0..(MaxDim - 1)] : \A j \in 1..k : ix[j] < shape[j]}
           : k \in 1..Len(shape)}

NoCall == [op |-> "none"]
NoResult == [none |-> TRUE]

\* one call is made on the inputs; its outcome is kept in tres
Returns(c, r) ==
  /\ tcall = NoCall
  /\ tcall' = c
  /\ tres' = r
  /\ UNCHANGED <<tthis, tother>>
  /\ UNCHANGED <<gvars, net>>

Operators == {"+", "*", "/", "-"}

NonZero(data) == \A i \in 1..Len(data) : data[i][1] # 0

Construct == Returns([op |-> "Tensor"], Tensor(tthis.data, tother.shape))

FromDouble == \E v \in Doubles : Returns([op |-> "Tensor(double)", value |-> v], TensorOfDouble(v))

Index ==
  \E ix \in Indices(tthis.shape) : \E g \in Garbage :
    Returns([op |-> "operator[]", indices |-> ix], index(tthis, ix, g))

Element == Returns([op |-> "element"], [double |-> element(tthis)])

View == Returns([op |-> "view"], view(tthis, tother.shape))

Assign == Returns([op |-> "operator="], assign(tthis, tother))

AssignDouble == \E v \in Doubles : Returns([op |-> "operator=(double)", value |-> v], assignDouble(tthis, v))

Elementwise ==
  \E op \in Operators : \E g \in Garbage :
    /\ op = "/" => NonZero(tother.data) /\ g # R(0)
    /\ Returns([op |-> "operator" \o op], elementwise(op, tthis, tother, g))

ElementwiseEq ==
  \E op \in Operators : \E g \in Garbage :
    /\ op = "/" => NonZero(tother.data) /\ g # R(0)
    /\ Returns([op |-> "operator" \o op \o "="], elementwiseEq(op, tthis, tother, g))

ElementwiseD ==
  \E op \in Operators : \E v \in Doubles :
    Returns([op |-> "operator" \o op \o "(double)", value |-> v],
            elementwiseD(op, tthis, v))

ElementwiseEqD ==
  \E op \in Operators : \E v \in Doubles :
    Returns([op |-> "operator" \o op \o "=(double)", value |-> v],
            elementwiseEqD(op, tthis, v))

Matmul == \E g \in Garbage : Returns([op |-> "matmul"], matmul(tthis, tother, g))

Sum == Returns([op |-> "sum"], [double |-> sum(tthis)])

Relu == Returns([op |-> "relu"], relu(tthis))

Power ==
  \E p \in Exponents :
    /\ p < 0 => NonZero(tthis.data)
    /\ Returns([op |-> "power", value |-> p], power(tthis, p))

\* the static functions fill, zeros, ones, single
Factory ==
  \E v \in Doubles :
    \E f \in {[op |-> "fill", value |-> v, result |-> fill(tother.shape, v)],
                 [op |-> "zeros", value |-> R(0), result |-> zeros(tother.shape)],
                 [op |-> "ones", value |-> R(1), result |-> ones(tother.shape)],
                 [op |-> "single", value |-> v, result |-> single(v)]} :
      Returns([op |-> f.op, value |-> f.value], f.result)

TensorInit ==
  /\ tthis \in Pool
  /\ tother \in Pool
  /\ tcall = NoCall
  /\ tres = NoResult
  /\ nodes = <<>>
  /\ call = NoCall
  /\ fault = "none"
  /\ ncalls = 0
  /\ npass = 0
  /\ net = <<>>

TensorNext ==
  \/ Construct \/ FromDouble \/ Index \/ Element \/ View \/ Assign \/ AssignDouble
  \/ Elementwise \/ ElementwiseEq \/ ElementwiseD \/ ElementwiseEqD
  \/ Matmul \/ Sum \/ Relu \/ Power \/ Factory

SpecTensor == TensorInit /\ [][TensorNext]_vars

----------------------------------------------------------------------------
(* Value and the graph functions of the tensor engine (src/src/engine.hpp) *)

\* Inputs{}: operation Null, no values, power 0.0
NoInputs == [operation |-> "Null", values |-> <<>>, power |-> 0]

\* Value(double value, Inputs inputs): _grad is Tensor(0.0)
ValueOfDouble(value, inputs) ==
  [value |-> single(value), inputs |-> inputs, grad |-> TensorOfDouble(R(0))]

\* Value(Tensor value, Inputs inputs): _grad is zeros(value.shape())
ValueOfTensor(value, inputs) ==
  [value |-> value, inputs |-> inputs, grad |-> zeros(value.shape)]

\* std::make_shared<Value>(...): the new object is the last of the sequence
makeShared(ns, v) == Append(ns, v)

\* transpose() of a rank-2 tensor: the axes swapped, the data permuted
transpose(t) ==
  LET rows == t.shape[1]
      cols == t.shape[2]
  IN  Tensor([p \in 1..(rows * cols) |->
                t.data[((p - 1) % rows) * cols + ((p - 1) \div rows) + 1]],
             <<cols, rows>>)

\* buildTopo(topo, visited, value): st is the pair of the two references
RECURSIVE buildTopo(_, _, _)
RECURSIVE buildTopoInputs(_, _, _, _)
buildTopoInputs(ns, st, value, i) ==
  IF i > Len(ns[value].inputs.values) THEN st
  ELSE buildTopoInputs(ns, buildTopo(ns, st, ns[value].inputs.values[i]), value, i + 1)

\* buildTopo that appends the value before its inputs' values
buildTopoPreorder(ns, st, value) ==
  IF value \in st.visited THEN st
  ELSE buildTopoInputs(ns, [topo |-> Append(st.topo, value),
                            visited |-> st.visited \cup {value}], value, 1)

buildTopo(ns, st, value) ==
  IF value \in st.visited THEN st
  ELSE LET st1 == [st EXCEPT !.visited = @ \cup {value}]
           st2 == buildTopoInputs(ns, st1, value, 1)
       IN  [st2 EXCEPT !.topo = Append(@, value)]

\* the topo vector of backwards() and params()
topoOf(ns, root) == buildTopo(ns, [topo |-> <<>>, visited |-> {}], root).topo

\* params()
params(ns, root) == topoOf(ns, root)

\* zeroGrad()
zeroGrad(ns, v) ==
  [ns EXCEPT ![v].grad = apply(@, [k \in 1..Len(@.data) |-> R(0)])]

\* zeroAllGrads(): zeroGrad(), then zeroAllGrads() of each input in turn
RECURSIVE zeroAllGrads(_, _)
RECURSIVE zeroAllInputs(_, _, _)
zeroAllInputs(ns, v, i) ==
  IF i > Len(ns[v].inputs.values) THEN ns
  ELSE zeroAllInputs(zeroAllGrads(ns, ns[v].inputs.values[i]), v, i + 1)

\* zeroAllGrads() that resets every node made so far
RECURSIVE zeroUpTo(_, _)
zeroUpTo(ns, k) == IF k = 0 THEN ns ELSE zeroUpTo(zeroGrad(ns, k), k - 1)

zeroAllGradsEverywhere(ns, v) == zeroUpTo(ns, Len(ns))

\* zeroAllGrads() that resets the node and follows its first input only
RECURSIVE zeroAllGradsFirstInput(_, _)
zeroAllGradsFirstInput(ns, v) ==
  IF ns[v].inputs.values = <<>> THEN zeroGrad(ns, v)
  ELSE zeroAllGradsFirstInput(zeroGrad(ns, v), ns[v].inputs.values[1])

\* zeroAllGrads() that resets only the node it is called on
zeroAllGradsShallow(ns, v) == zeroGrad(ns, v)

zeroAllGrads(ns, v) == zeroAllInputs(zeroGrad(ns, v), v, 1)

\* the state a backward pass works on: the nodes, and how the pass ended
Running(ns) == [ns |-> ns, fault |-> "none"]
Failed(ns, how) == [ns |-> ns, fault |-> how]

\* x->_grad += t
accumulate(st, x, t, g) ==
  IF st.fault # "none" THEN st
  ELSE IF ~IsTensor(t) THEN Failed(st.ns, t.error)
  ELSE Running([st.ns EXCEPT ![x].grad = elementwiseEq("+", @, t, g)])

\* x->_grad = t: a rule that overwrites
overwrite(st, x, t, g) ==
  IF st.fault # "none" THEN st
  ELSE IF ~IsTensor(t) THEN Failed(st.ns, t.error)
  ELSE Running([st.ns EXCEPT ![x].grad = assign(@, t)])

\* the operand of matmul in a backward rule may itself be a failed call
matmulOf(a, b, g) == IF IsTensor(a) /\ IsTensor(b) THEN matmul(a, b, g) ELSE AssertFailed

\* the Power rule with the node's own output value in place of the operand's
powerRuleOwnValue(ns, v, g) ==
  LET n == ns[v]
  IN  accumulate(Running(ns), n.inputs.values[1],
        elementwise("*", elementwiseD("*", power(n.value, n.inputs.power - 1), R(n.inputs.power)),
              n.grad, g), g)

\* the Power branch of backwardsOnce
powerRule(ns, v, g) ==
  LET n == ns[v]
      a == n.inputs.values[1]
  IN  accumulate(Running(ns), a,
        elementwise("*", elementwiseD("*", power(ns[a].value, n.inputs.power - 1), R(n.inputs.power)),
              n.grad, g), g)

\* the Multiplication branch that assigns where the code accumulates
multiplicationRuleOverwrite(ns, v, g) ==
  LET n  == ns[v]
      a  == n.inputs.values[1]
      b  == n.inputs.values[2]
      s1 == overwrite(Running(ns), a, elementwise("*", ns[b].value, n.grad, g), g)
  IN  overwrite(s1, b, elementwise("*", s1.ns[a].value, s1.ns[v].grad, g), g)

\* the Multiplication branch of backwardsOnce
multiplicationRule(ns, v, g) ==
  LET n  == ns[v]
      a  == n.inputs.values[1]
      b  == n.inputs.values[2]
      s1 == accumulate(Running(ns), a, elementwise("*", ns[b].value, n.grad, g), g)
  IN  accumulate(s1, b, elementwise("*", s1.ns[a].value, s1.ns[v].grad, g), g)

\* a Sum branch that adds the tensor _grad in the place of _grad.element()
sumRuleElementwise(ns, v, g) ==
  accumulate(Running(ns), ns[v].inputs.values[1], ns[v].grad, g)

\* the Sum branch of backwardsOnce: _grad.element() throws unless _grad has
\* one element
sumRule(ns, v, g) ==
  LET n == ns[v]
  IN  IF Len(n.grad.data) # 1
      THEN Failed(ns, element(n.grad).error)
      ELSE Running([ns EXCEPT ![n.inputs.values[1]].grad =
                      elementwiseEqD("+", @, element(n.grad))])

\* backwardsOnce()
backwardsOnce(ns, v, g) ==
  LET n  == ns[v]
      op == n.inputs.operation
      in == n.inputs.values
  IN  CASE op = "Addition" ->
             LET s1 == accumulate(Running(ns), in[1], n.grad, g)
             IN  accumulate(s1, in[2], s1.ns[v].grad, g)
        [] op = "Multiplication" -> multiplicationRule(ns, v, g)
        [] op = "Power" -> powerRule(ns, v, g)
        [] op = "RELU" ->
             accumulate(Running(ns), in[1],
               elementwise("*", n.grad,
                     apply(n.value, [k \in 1..Len(n.value.data) |->
                                       dBool(dPositive(n.value.data[k]))]), g), g)
        [] op = "MatMul" ->
             LET s1 == accumulate(Running(ns), in[1],
                         matmulOf(n.grad, transpose(ns[in[2]].value), g), g)
             IN  IF s1.fault # "none" THEN s1
                 ELSE accumulate(s1, in[2],
                        matmulOf(transpose(s1.ns[in[1]].value), s1.ns[v].grad, g), g)
        [] op = "Sum" -> sumRule(ns, v, g)
        [] OTHER -> Running(ns)

\* the for_each of backwards(): backwardsOnce on topo[k], ..., topo[1]
RECURSIVE backwardsFrom(_, _, _, _)
backwardsFrom(st, topo, k, g) ==
  IF k = 0 \/ st.fault # "none" THEN st
  ELSE backwardsFrom(backwardsOnce(st.ns, topo[k], g), topo, k - 1, g)

\* _grad = _grad.apply(1.0) of backwards()
seed(ns, root) ==
  [ns EXCEPT ![root].grad = apply(@, [k \in 1..Len(@.data) |-> R(1)])]

\* backwards(): buildTopo, _grad of this set to ones, the rules in reverse
backwards(ns, root, g) ==
  LET topo == topoOf(ns, root)
  IN  backwardsFrom(Running(seed(ns, root)), topo, Len(topo), g)

\* a graph function whose new node lists itself as its operands
madeSelfOperand(ns, value, inputs) ==
  IF IsTensor(value)
  THEN Running(makeShared(ns, ValueOfTensor(value,
         [inputs EXCEPT !.values = [e \in 1..Len(@) |-> Len(ns) + 1]])))
  ELSE Failed(ns, value.error)

\* the result of a graph function: the nodes with the new ones appended (the
\* returned ValuePtr is the last), or the failure of the Tensor call in it
made(ns, value, inputs) ==
  IF IsTensor(value) THEN Running(makeShared(ns, ValueOfTensor(value, inputs)))
  ELSE Failed(ns, value.error)

\* operator+(a, b), operator*(a, b), power(a, value)
vAdd(ns, a, b, g) ==
  made(ns, elementwise("+", ns[a].value, ns[b].value, g),
       [operation |-> "Addition", values |-> <<a, b>>, power |-> 0])

vMul(ns, a, b, g) ==
  made(ns, elementwise("*", ns[a].value, ns[b].value, g),
       [operation |-> "Multiplication", values |-> <<a, b>>, power |-> 0])

vPower(ns, a, value) ==
  made(ns, power(ns[a].value, value),
       [operation |-> "Power", values |-> <<a>>, power |-> value])

\* operator-(a): a * make_shared<Value>(-1.0)
vNeg(ns, a, g) ==
  LET ns1 == makeShared(ns, ValueOfDouble(R(-1), NoInputs))
  IN  vMul(ns1, a, Len(ns1), g)

\* operator/(a, b): a * power(b, -1.0)
vDiv(ns, a, b, g) ==
  LET s1 == vPower(ns, b, -1)
  IN  IF s1.fault # "none" THEN s1 ELSE vMul(s1.ns, a, Len(s1.ns), g)

\* operator-(a, b): a + (-b)
vSub(ns, a, b, g) ==
  LET s1 == vNeg(ns, b, g)
  IN  IF s1.fault # "none" THEN s1 ELSE vAdd(s1.ns, a, Len(s1.ns), g)

\* relu(a)
vRelu(ns, a) ==
  made(ns, apply(ns[a].value,
                 [k \in 1..Len(ns[a].value.data) |->
                    IF dPositive(ns[a].value.data[k]) THEN ns[a].value.data[k] ELSE R(0)]),
       [operation |-> "RELU", values |-> <<a>>, power |-> 0])

\* matmul(a, b)
vMatmul(ns, a, b, g) ==
  made(ns, matmul(ns[a].value, ns[b].value, g),
       [operation |-> "MatMul", values |-> <<a, b>>, power |-> 0])

\* sum(a): Tensor::sum() is a double, so the node is made by Value(double)
vSum(ns, a) ==
  Running(makeShared(ns, ValueOfDouble(sum(ns[a].value),
            [operation |-> "Sum", values |-> <<a>>, power |-> 0])))

----------------------------------------------------------------------------
(* Spec: a program that builds a graph with the tensor engine and calls    *)
(* backwards(), zeroAllGrads() and params() on its nodes                   *)

\* the tensors leaves are made from
LeafDoubles == {R(2)}

LeafTensors ==
  { Tensor(<<R(1), R(-1), R(2), R(1)>>, <<2, 2>>) }

Ptrs == 1..Len(nodes)

\* the nodes reachable from root through operand edges
RECURSIVE Reach(_, _)
Reach(ns, root) ==
  {root} \cup UNION {Reach(ns, ns[root].inputs.values[i]) :
                       i \in 1..Len(ns[root].inputs.values)}

AllZero(t) == \A k \in 1..Len(t.data) : t.data[k] = R(0)

\* a graph function ran: its nodes are appended, or the process ended
Built(c, outcome) ==
  /\ fault = "none"
  /\ ncalls < MaxCalls
  /\ ncalls' = ncalls + 1
  /\ \E st \in {outcome} :
       /\ nodes' = st.ns
       /\ fault' = st.fault
       /\ call' = [c EXCEPT !.result = Len(st.ns)]
  /\ UNCHANGED <<npass, tvars, net>>

ValueMakeDouble ==
  \E v \in LeafDoubles :
    Built([op |-> "make", result |-> 0],
          Running(makeShared(nodes, ValueOfDouble(v, NoInputs))))

ValueMakeTensor ==
  \E t \in LeafTensors :
    Built([op |-> "make", result |-> 0],
          Running(makeShared(nodes, ValueOfTensor(t, NoInputs))))

ValueAdd ==
  \E a \in Ptrs, b \in Ptrs : \E g \in Garbage :
    Built([op |-> "operator+", a |-> a, b |-> b, result |-> 0], vAdd(nodes, a, b, g))

ValueMul ==
  \E a \in Ptrs, b \in Ptrs : \E g \in Garbage :
    Built([op |-> "operator*", a |-> a, b |-> b, result |-> 0], vMul(nodes, a, b, g))

ValuePower ==
  \E a \in Ptrs : \E p \in Exponents :
    /\ p - 1 < 0 => NonZero(nodes[a].value.data)
    /\ Built([op |-> "power", a |-> a, result |-> 0], vPower(nodes, a, p))

ValueNeg ==
  \E a \in Ptrs : \E g \in Garbage :
    Built([op |-> "negate", a |-> a, result |-> 0], vNeg(nodes, a, g))

ValueDiv ==
  \E a \in Ptrs, b \in Ptrs : \E g \in Garbage :
    /\ NonZero(nodes[b].value.data)
    /\ Built([op |-> "operator/", a |-> a, b |-> b, result |-> 0], vDiv(nodes, a, b, g))

ValueSub ==
  \E a \in Ptrs, b \in Ptrs : \E g \in Garbage :
    Built([op |-> "operator-", a |-> a, b |-> b, result |-> 0], vSub(nodes, a, b, g))

ValueRelu ==
  \E a \in Ptrs :
    Built([op |-> "relu", a |-> a, result |-> 0], vRelu(nodes, a))

ValueMatmul ==
  \E a \in Ptrs, b \in Ptrs : \E g \in Garbage :
    Built([op |-> "matmul", a |-> a, b |-> b, result |-> 0], vMatmul(nodes, a, b, g))

ValueSum ==
  \E a \in Ptrs :
    Built([op |-> "sum", a |-> a, result |-> 0], vSum(nodes, a))

\* root->backwards(); fresh records whether every reachable grad was zero
ValueBackwards ==
  \E root \in Ptrs : \E g \in Garbage :
    /\ fault = "none"
    /\ npass < MaxPasses
    /\ npass' = npass + 1
    /\ \E st \in {backwards(nodes, root, g)} :
         /\ nodes' = st.ns
         /\ fault' = st.fault
    /\ call' = [op |-> "backwards", root |-> root,
                fresh |-> \A x \in Reach(nodes, root) : AllZero(nodes[x].grad)]
    /\ UNCHANGED <<ncalls, tvars, net>>

\* root->zeroAllGrads(); fresh as for backwards()
ValueZeroAllGrads ==
  \E root \in Ptrs :
    /\ fault = "none"
    /\ npass < MaxPasses
    /\ npass' = npass + 1
    /\ nodes' = zeroAllGrads(nodes, root)
    /\ call' = [op |-> "zeroAllGrads", root |-> root,
                fresh |-> \A x \in Reach(nodes, root) : AllZero(nodes[x].grad)]
    /\ UNCHANGED <<fault, ncalls, tvars, net>>

\* root->params(): the returned vector is kept in call.result
ValueParams ==
  \E root \in Ptrs :
    /\ fault = "none"
    /\ ncalls < MaxCalls
    /\ ncalls' = ncalls + 1
    /\ call' = [op |-> "params", root |-> root, result |-> params(nodes, root)]
    /\ UNCHANGED <<nodes, fault, npass, tvars, net>>

Init ==
  /\ nodes = <<>>
  /\ call = NoCall
  /\ fault = "none"
  /\ ncalls = 0
  /\ npass = 0
  /\ tthis = NoResult
  /\ tother = NoResult
  /\ tcall = NoCall
  /\ tres = NoResult
  /\ net = <<>>

Next ==
  \/ ValueMakeDouble \/ ValueMakeTensor
  \/ ValueAdd \/ ValueMul \/ ValuePower \/ ValueNeg \/ ValueDiv \/ ValueSub
  \/ ValueRelu \/ ValueMatmul \/ ValueSum
  \/ ValueBackwards \/ ValueZeroAllGrads \/ ValueParams

Spec == Init /\ [][Next]_vars

----------------------------------------------------------------------------
(* Claims on Tensor, checked under SpecTensor                              *)

\* the product of a sequence of dimensions
RECURSIVE Product(_)
Product(dims) == IF dims = <<>> THEN 1 ELSE Head(dims) * Product(Tail(dims))

\* the row-major flat position (0-based) of an index prefix
RECURSIVE RowMajorPos(_, _, _)
RowMajorPos(shape, ix, k) ==
  IF k = 0 THEN 0
  ELSE RowMajorPos(shape, ix, k - 1)
         + ix[k] * Product(SubSeq(shape, k + 1, Len(shape)))

\* sum over t = 1..k of A[i,t] * B[t,j] for row-major A : [m,k], B : [k,n]
RECURSIVE DotSum(_, _, _, _, _)
DotSum(A, B, i, j, t) ==
  IF t = 0 THEN R(0)
  ELSE dAdd(DotSum(A, B, i, j, t - 1),
            dMul(A.data[(i - 1) * A.shape[2] + t],
                 B.data[(t - 1) * B.shape[2] + j]))

\* C7: for rank-2 A : [m,k] and B : [k2,n], A.matmul(B) yields a Tensor
\* exactly when k = k2; the Tensor then has shape [m,n] and entry (i,j) is
\* the sum over t of A[i,t] * B[t,j]; when k # k2 the call fails.
C7_MatmulShapeContract ==
  (tcall.op = "matmul" /\ Len(tthis.shape) = 2 /\ Len(tother.shape) = 2) =>
    LET m == tthis.shape[1]
        n == tother.shape[2]
    IN  IF tthis.shape[2] = tother.shape[1]
        THEN /\ IsTensor(tres)
             /\ tres.shape = <<m, n>>
             /\ Len(tres.data) = m * n
             /\ \A i \in 1..m : \A j \in 1..n :
                  tres.data[(i - 1) * n + j]
                    = DotSum(tthis, tother, i, j, tthis.shape[2])
        ELSE ~IsTensor(tres)

\* C8: for in-bounds coordinates of length k <= rank n, operator[] returns
\* the shape-[1] tensor of the element at the row-major position (k = n), or
\* the sub-tensor of the trailing dimensions holding the contiguous block
\* that starts at that position (k < n).
C8_PrefixIndexRowMajor ==
  tcall.op = "operator[]" =>
    LET ix    == tcall.indices
        n     == Len(tthis.shape)
        k     == Len(ix)
        pos   == RowMajorPos(tthis.shape, ix, k)
        shape == IF k = n THEN <<1>> ELSE SubSeq(tthis.shape, k + 1, n)
    IN  /\ IsTensor(tres)
        /\ tres.shape = shape
        /\ tres.data = [i \in 1..Product(shape) |-> tthis.data[pos + i]]

\* C9: Tensor(data, shape) fails exactly when len(data) # product(shape),
\* and every Tensor a constructor, factory, assignment, operator, apply,
\* view, relu, power or matmul produces has len(data) = product(shape).
C9_TensorSizeInvariant ==
  /\ tcall.op = "Tensor" =>
       (IsTensor(tres) <=> Len(tthis.data) = Product(tother.shape))
  /\ IsTensor(tres) => Len(tres.data) = Product(tres.shape)

\* a constructor call with mismatched sizes was rejected
C9_Witness ==
  /\ tcall.op = "Tensor"
  /\ Len(tthis.data) # Product(tother.shape)
  /\ tres = RuntimeError

----------------------------------------------------------------------------
(* Claims on the tensor engine, checked under Spec                         *)

OpOf(n) == nodes[n].inputs.operation
InputsOf(n) == nodes[n].inputs.values

\* every node reachable from root is a leaf, an Addition or a Multiplication
AddMulOnly(root) ==
  \A n \in Reach(nodes, root) : OpOf(n) \in {"Null", "Addition", "Multiplication"}

\* every node reachable from root has the shape of root
UniformShape(root) ==
  \A n \in Reach(nodes, root) : nodes[n].value.shape = nodes[root].value.shape

\* the local derivative of node m with respect to its i-th operand, at
\* element k: 1 for Addition, the other operand's value for Multiplication
LocalDerivative(m, i, k) ==
  IF OpOf(m) = "Addition" THEN R(1)
  ELSE nodes[InputsOf(m)[3 - i]].value.data[k]

\* the sum, over every operand-edge path from m to n, of the product of the
\* local derivatives along the path, at element k
RECURSIVE PathSum(_, _, _)
RECURSIVE PathSumFrom(_, _, _, _)
PathSumFrom(m, n, k, i) ==
  IF i = 0 THEN R(0)
  ELSE dAdd(PathSumFrom(m, n, k, i - 1),
            dMul(LocalDerivative(m, i, k), PathSum(InputsOf(m)[i], n, k)))

PathSum(m, n, k) ==
  IF m = n THEN R(1) ELSE PathSumFrom(m, n, k, Len(InputsOf(m)))

\* C1: after backwards(root) on an add/multiply graph of one shape whose
\* grads were all zero, the grad of every reachable node is the sum over all
\* operand-edge paths from root of the product of the local derivatives.
C1_GradientAccumulation ==
  (/\ call.op = "backwards"
   /\ fault = "none"
   /\ call.fresh
   /\ AddMulOnly(call.root)
   /\ UniformShape(call.root)) =>
    \A n \in Reach(nodes, call.root) :
      /\ Len(nodes[n].grad.data) = Len(nodes[n].value.data)
      /\ \A k \in 1..Len(nodes[n].grad.data) :
           nodes[n].grad.data[k] = PathSum(call.root, n, k)

\* y = (a*a) + a was built on a leaf a of more than one element, and after
\* backwards(y) a.grad is 2*a.value + 1
C1_Witness ==
  /\ call.op = "backwards"
  /\ fault = "none"
  /\ call.fresh
  /\ OpOf(call.root) = "Addition"
  /\ \E a \in Ptrs :
       /\ OpOf(a) = "Null"
       /\ Len(nodes[a].value.data) > 1
       /\ InputsOf(call.root)[2] = a
       /\ OpOf(InputsOf(call.root)[1]) = "Multiplication"
       /\ InputsOf(InputsOf(call.root)[1]) = <<a, a>>
       /\ \A k \in 1..Len(nodes[a].value.data) :
            nodes[a].grad.data[k]
              = dAdd(dMul(R(2), nodes[a].value.data[k]), R(1))

\* the positions of node n in a vector of nodes
PositionsOf(order, n) == {i \in 1..Len(order) : order[i] = n}

\* order lists exactly the nodes reachable from root, each once, every
\* operand strictly before each of its dependents, root last
TopologicalOrder(order, root) ==
  /\ {order[i] : i \in 1..Len(order)} = Reach(nodes, root)
  /\ \A n \in Reach(nodes, root) : Cardinality(PositionsOf(order, n)) = 1
  /\ \A i \in 1..Len(order) : \A j \in 1..Len(order) :
       (\E e \in 1..Len(InputsOf(order[j])) : InputsOf(order[j])[e] = order[i])
         => i < j
  /\ order[Len(order)] = root

\* C2: for every root, the vector buildTopo produces (used by backwards(),
\* returned by params()) holds every reachable node exactly once with every
\* operand strictly before its dependents, root last.
C2_TopologicalOrder ==
  /\ \A root \in Ptrs : TopologicalOrder(topoOf(nodes, root), root)
  /\ call.op = "params" => TopologicalOrder(call.result, call.root)

\* params() returned the order of a graph in which some node feeds two
\* operand edges
C2_Witness ==
  /\ call.op = "params"
  /\ Len(call.result) >= 3
  /\ \E n \in Reach(nodes, call.root) :
       Cardinality({<<m, e>> \in Reach(nodes, call.root) \X (1..2) :
                      e <= Len(InputsOf(m)) /\ InputsOf(m)[e] = n}) >= 2

\* C4: after zeroAllGrads(root), whatever the grads were, the grad of every
\* node reachable from root is all zero, and a grad always has the shape of
\* its node's value (so the reset leaves the shape as it was).
C4_ZeroAllGrads ==
  /\ \A n \in Ptrs :
       /\ nodes[n].grad.shape = nodes[n].value.shape
       /\ Len(nodes[n].grad.data) = Len(nodes[n].value.data)
  /\ call.op = "zeroAllGrads" =>
       \A n \in Reach(nodes, call.root) : AllZero(nodes[n].grad)

\* zeroAllGrads(root) ran on a graph of several nodes some of whose grads an
\* earlier backwards() had made non-zero
C4_Witness ==
  /\ call.op = "zeroAllGrads"
  /\ ~call.fresh
  /\ Cardinality(Reach(nodes, call.root)) >= 3
  /\ \E n \in Reach(nodes, call.root) : Len(nodes[n].grad.data) > 1

\* C6: no graph function (and not params()) changes the value or grad of an
\* existing node; backwards(root) and zeroAllGrads(root) change no value,
\* operation, operand list or exponent, make no node, and leave the grad of
\* every node not reachable from root as it was.
C6_Frame ==
  [][fault' = "none" =>
       /\ Len(nodes') >= Len(nodes)
       /\ \A n \in Ptrs :
            /\ nodes'[n].value = nodes[n].value
            /\ nodes'[n].inputs = nodes[n].inputs
       /\ call'.op \notin {"backwards", "zeroAllGrads"} =>
            \A n \in Ptrs : nodes'[n].grad = nodes[n].grad
       /\ call'.op \in {"backwards", "zeroAllGrads"} =>
            /\ Len(nodes') = Len(nodes)
            /\ \A n \in Ptrs \ Reach(nodes, call'.root) :
                 nodes'[n].grad = nodes[n].grad]_vars

\* a pass ran from a root that does not reach some node whose grad an
\* earlier pass had made non-zero, and that grad is still there
C6_Witness ==
  /\ call.op \in {"backwards", "zeroAllGrads"}
  /\ fault = "none"
  /\ \E n \in Ptrs \ Reach(nodes, call.root) : ~AllZero(nodes[n].grad)

\* the nodes the last call made, for a derived operation
MadeBy(op) ==
  LET count == IF op = "operator-" THEN 3 ELSE 2
  IN  (Len(nodes) - count + 1)..Len(nodes)

\* C10: for a and b of one shape S, negate(a), subtract(a,b) and
\* divide(a,b) make only Null, Addition, Multiplication and Power nodes,
\* every Addition or Multiplication they make has two operands of shape S,
\* and the result is the elementwise -a, a - b, a / b of shape S.
C10_DerivedOperationsShape ==
  (/\ call.op \in {"negate", "operator-", "operator/"}
   /\ fault = "none"
   /\ call.op # "negate" => nodes[call.b].value.shape = nodes[call.a].value.shape) =>
    LET S == nodes[call.a].value.shape
        a == nodes[call.a].value.data
        r == nodes[call.result].value
    IN  /\ \A n \in MadeBy(call.op) :
             /\ OpOf(n) \in {"Null", "Addition", "Multiplication", "Power"}
             /\ OpOf(n) \in {"Addition", "Multiplication"} =>
                  \A e \in 1..2 : nodes[InputsOf(n)[e]].value.shape = S
        /\ r.shape = S
        /\ Len(r.data) = Len(a)
        /\ \A k \in 1..Len(a) :
             r.data[k] =
               CASE call.op = "negate"    -> dSub(R(0), a[k])
                 [] call.op = "operator-" -> dSub(a[k], nodes[call.b].value.data[k])
                 [] call.op = "operator/" -> dDiv(a[k], nodes[call.b].value.data[k])

----------------------------------------------------------------------------
(* engineTests() of tests.cpp, one statement a step.  The nodes are made in *)
(* the order a, b, c, e, d, f, L, lpow, reluResult, so the position in the  *)
(* function is the number of nodes made and the last call.                  *)

a_ == 1
b_ == 2
c_ == 3
e_ == 4
d_ == 5
f_ == 6
L_ == 7
lpow_ == 8
reluResult_ == 9

\* the leaf values: the ones of engineTests first, and one more for each
LeafChoices ==
  [n \in {a_, b_, c_, f_} |->
     CASE n = a_ -> {R(2), R(1)}
       [] n = b_ -> {R(-3), R(1)}
       [] n = c_ -> {R(10), R(5)}
       [] n = f_ -> {R(2), R(-1)}]

\* one statement of engineTests() that makes a node
Statement(at, c, outcome) ==
  /\ fault = "none"
  /\ Len(nodes) = at - 1
  /\ \E st \in {outcome} :
       /\ nodes' = st.ns
       /\ fault' = st.fault
       /\ call' = [c EXCEPT !.result = Len(st.ns)]
  /\ UNCHANGED <<ncalls, npass, tvars, net>>

\* auto a = Value::make(2.0); and b, c, f likewise
EngineTestsMake ==
  \E n \in {a_, b_, c_, f_} : \E v \in LeafChoices[n] :
    Statement(n, [op |-> "make", result |-> 0],
              Running(makeShared(nodes, ValueOfDouble(v, NoInputs))))

\* auto e = a * b;
EngineTestsE ==
  \E g \in Garbage :
    Statement(e_, [op |-> "operator*", a |-> a_, b |-> b_, result |-> 0],
              vMul(nodes, a_, b_, g))

\* auto d = e + c;
EngineTestsD ==
  \E g \in Garbage :
    Statement(d_, [op |-> "operator+", a |-> e_, b |-> c_, result |-> 0],
              vAdd(nodes, e_, c_, g))

\* auto L = d * f;
EngineTestsL ==
  \E g \in Garbage :
    Statement(L_, [op |-> "operator*", a |-> d_, b |-> f_, result |-> 0],
              vMul(nodes, d_, f_, g))

\* auto lpow = power(L, -1); the exponent also drawn from Exponents
EngineTestsLpow ==
  \E p \in Exponents :
    /\ Len(nodes) = lpow_ - 1
    /\ p - 1 < 0 => NonZero(nodes[L_].value.data)
    /\ Statement(lpow_, [op |-> "power", a |-> L_, result |-> 0],
                 vPower(nodes, L_, p))

\* auto reluResult = relu(lpow);
EngineTestsRelu ==
  Statement(reluResult_, [op |-> "relu", a |-> lpow_, result |-> 0],
            vRelu(nodes, lpow_))

\* reluResult->_grad = 1.0;
EngineTestsSeed ==
  /\ fault = "none"
  /\ call.op = "relu"
  /\ Len(nodes) = reluResult_
  /\ nodes' = [nodes EXCEPT ![reluResult_].grad = assignDouble(@, R(1))]
  /\ call' = [op |-> "_grad=", root |-> reluResult_]
  /\ UNCHANGED <<fault, ncalls, npass, tvars, net>>

\* reluResult->backwards();
EngineTestsBackwards ==
  \E g \in Garbage :
    /\ fault = "none"
    /\ call.op = "_grad="
    /\ \E st \in {backwards(nodes, reluResult_, g)} :
         /\ nodes' = st.ns
         /\ fault' = st.fault
    /\ call' = [op |-> "backwards", root |-> reluResult_, fresh |-> FALSE]
    /\ UNCHANGED <<ncalls, npass, tvars, net>>

EngineTestsNext ==
  \/ EngineTestsMake
  \/ EngineTestsE
  \/ EngineTestsD
  \/ EngineTestsL
  \/ EngineTestsLpow
  \/ EngineTestsRelu
  \/ EngineTestsSeed
  \/ EngineTestsBackwards

SpecEngineTests == Init /\ [][EngineTestsNext]_vars

----------------------------------------------------------------------------
(* Claims on engineTests(), checked under SpecEngineTests                   *)

\* x to the power exponent - 1, for the exponents drawn
PowerMinusOne(x, exponent) ==
  IF exponent = 2 THEN x ELSE dDiv(R(1), dMul(x, x))

\* the only element of the value, of the grad, of a node of shape [1]
ValueAt(n) == nodes[n].value.data[1]
GradAt(n) == nodes[n].grad.data[1]

\* C3: the backward rule of lpow = power(L, p) adds p * L.value^(p-1) *
\* lpow.grad to L.grad, from the value of the operand L and not from the
\* value of lpow; and with a=2, b=-3, c=10, f=2, p=-1, after
\* backwards(reluResult): reluResult.value = 1/8, L.value = 8,
\* L.grad = -1/64, a.grad = 3/32.
C3_PowerRuleAndScenario ==
  /\ [](call.op = "backwards" /\ fault = "none" =>
          LET p == nodes[lpow_].inputs.power
              given == /\ ValueAt(a_) = R(2)
                       /\ ValueAt(b_) = R(-3)
                       /\ ValueAt(c_) = R(10)
                       /\ ValueAt(f_) = R(2)
                       /\ p = -1
          IN  given =>
                /\ ValueAt(reluResult_) = Frac(1, 8)
                /\ ValueAt(L_) = R(8)
                /\ GradAt(L_) = Frac(-1, 64)
                /\ GradAt(a_) = Frac(3, 32))
  /\ [][call'.op = "backwards" /\ fault' = "none" =>
          LET p == nodes[lpow_].inputs.power
          IN  nodes'[L_].grad.data
                = <<dAdd(GradAt(L_),
                         dMul(dMul(R(p), PowerMinusOne(ValueAt(L_), p)),
                              nodes'[lpow_].grad.data[1]))>>]_vars

\* engineTests() ran to its end with its own leaves and exponent, the grad
\* reached L through relu and power, and L.value differs from lpow.value
C3_Witness ==
  /\ call.op = "backwards"
  /\ fault = "none"
  /\ ValueAt(a_) = R(2)
  /\ ValueAt(b_) = R(-3)
  /\ ValueAt(c_) = R(10)
  /\ ValueAt(f_) = R(2)
  /\ nodes[lpow_].inputs.power = -1
  /\ ValueAt(L_) # ValueAt(lpow_)
  /\ GradAt(L_) = Frac(-1, 64)

----------------------------------------------------------------------------
(* The scalar engine (src/engine.hpp), run by src/main.cpp.  Its nodes are  *)
(* held in the same variables: _value and _grad are doubles.                *)

\* Value(double value, Inputs inputs): _grad = 0.0
scalarValue(value, inputs) ==
  [value |-> value, inputs |-> inputs, grad |-> R(0)]

\* buildTopo(topo, visited, value) of the scalar engine
RECURSIVE scalarBuildTopo(_, _, _)
RECURSIVE scalarBuildTopoInputs(_, _, _, _)
scalarBuildTopoInputs(ns, st, value, i) ==
  IF i > Len(ns[value].inputs.values) THEN st
  ELSE scalarBuildTopoInputs(ns, scalarBuildTopo(ns, st, ns[value].inputs.values[i]),
                             value, i + 1)

scalarBuildTopo(ns, st, value) ==
  IF value \in st.visited THEN st
  ELSE LET st1 == scalarBuildTopoInputs(ns, [st EXCEPT !.visited = @ \cup {value}],
                                        value, 1)
       IN  [st1 EXCEPT !.topo = Append(@, value)]

\* zeroGrad()
scalarZeroGrad(ns, v) == [ns EXCEPT ![v].grad = R(0)]

\* the RELU branch of backwardsOnce
scalarReluRule(ns, v) ==
  [ns EXCEPT ![ns[v].inputs.values[1]].grad =
     dMul(dBool(dPositive(ns[v].value)), ns[v].grad)]

\* backwardsOnce() of the scalar engine
scalarBackwardsOnce(ns, v) ==
  LET n  == ns[v]
      in == n.inputs.values
  IN  CASE n.inputs.operation = "Addition" ->
             LET ns1 == [ns EXCEPT ![in[1]].grad = dAdd(@, n.grad)]
             IN  [ns1 EXCEPT ![in[2]].grad = dAdd(@, n.grad)]
        [] n.inputs.operation = "Multiplication" ->
             LET ns1 == [ns EXCEPT ![in[1]].grad =
                           dAdd(@, dMul(ns[in[2]].value, n.grad))]
             IN  [ns1 EXCEPT ![in[2]].grad =
                    dAdd(@, dMul(ns1[in[1]].value, n.grad))]
        [] n.inputs.operation = "Power" ->
             [ns EXCEPT ![in[1]].grad =
                dAdd(@, dMul(dMul(R(n.inputs.power),
                                  dPow(n.value, n.inputs.power - 1)),
                             n.grad))]
        [] n.inputs.operation = "RELU" -> scalarReluRule(ns, v)
        [] OTHER -> ns

\* backwards() of the scalar engine: the root's _grad is not set here
RECURSIVE scalarBackwardsFrom(_, _, _)
scalarBackwardsFrom(ns, topo, k) ==
  IF k = 0 THEN ns
  ELSE scalarBackwardsFrom(scalarBackwardsOnce(ns, topo[k]), topo, k - 1)

scalarBackwards(ns, root) ==
  LET topo == scalarBuildTopo(ns, [topo |-> <<>>, visited |-> {}], root).topo
  IN  scalarBackwardsFrom(ns, topo, Len(topo))

\* operator+, operator*, power, relu of the scalar engine
scalarAdd(ns, a, b) ==
  makeShared(ns, scalarValue(dAdd(ns[a].value, ns[b].value),
             [operation |-> "Addition", values |-> <<a, b>>, power |-> 0]))

scalarMul(ns, a, b) ==
  makeShared(ns, scalarValue(dMul(ns[a].value, ns[b].value),
             [operation |-> "Multiplication", values |-> <<a, b>>, power |-> 0]))

scalarPower(ns, a, value) ==
  makeShared(ns, scalarValue(dPow(ns[a].value, value),
             [operation |-> "Power", values |-> <<a>>, power |-> value]))

scalarRelu(ns, a) ==
  makeShared(ns, scalarValue(IF dPositive(ns[a].value) THEN ns[a].value ELSE R(0),
             [operation |-> "RELU", values |-> <<a>>, power |-> 0]))

----------------------------------------------------------------------------
(* SpecScalar: any caller of the scalar engine                              *)

ScalarLeaves == {R(2), R(-1)}

\* a graph function returned: the new nodes are appended
ScalarBuilt(c, ns1) ==
  /\ ncalls < MaxCalls
  /\ ncalls' = ncalls + 1
  /\ nodes' = ns1
  /\ call' = [c EXCEPT !.result = Len(ns1)]
  /\ UNCHANGED <<fault, npass, tvars, net>>

\* a member of a node was called or assigned
ScalarPassed(c, ns1) ==
  /\ npass < MaxPasses
  /\ npass' = npass + 1
  /\ nodes' = ns1
  /\ call' = c
  /\ UNCHANGED <<fault, ncalls, tvars, net>>

ScalarMake ==
  \E v \in ScalarLeaves :
    ScalarBuilt([op |-> "make", result |-> 0],
                makeShared(nodes, scalarValue(v, NoInputs)))

ScalarAdd ==
  \E a \in Ptrs, b \in Ptrs :
    ScalarBuilt([op |-> "operator+", a |-> a, b |-> b, result |-> 0],
                scalarAdd(nodes, a, b))

ScalarMul ==
  \E a \in Ptrs, b \in Ptrs :
    ScalarBuilt([op |-> "operator*", a |-> a, b |-> b, result |-> 0],
                scalarMul(nodes, a, b))

ScalarPower ==
  \E a \in Ptrs : \E p \in Exponents :
    /\ p < 0 => nodes[a].value[1] # 0
    /\ ScalarBuilt([op |-> "power", a |-> a, result |-> 0],
                   scalarPower(nodes, a, p))

ScalarRelu ==
  \E a \in Ptrs :
    ScalarBuilt([op |-> "relu", a |-> a, result |-> 0], scalarRelu(nodes, a))

\* reluResult->_grad = 1.0; of main.cpp, on any node
ScalarSeed ==
  \E x \in Ptrs :
    ScalarPassed([op |-> "_grad=", root |-> x], [nodes EXCEPT ![x].grad = R(1)])

ScalarZeroGrad ==
  \E x \in Ptrs :
    ScalarPassed([op |-> "zeroGrad", root |-> x], scalarZeroGrad(nodes, x))

ScalarBackwardsOnce ==
  \E x \in Ptrs :
    ScalarPassed([op |-> "backwardsOnce", root |-> x], scalarBackwardsOnce(nodes, x))

ScalarBackwards ==
  \E x \in Ptrs :
    ScalarPassed([op |-> "backwards", root |-> x], scalarBackwards(nodes, x))

ScalarNext ==
  \/ ScalarMake
  \/ ScalarAdd
  \/ ScalarMul
  \/ ScalarPower
  \/ ScalarRelu
  \/ ScalarSeed
  \/ ScalarZeroGrad
  \/ ScalarBackwardsOnce
  \/ ScalarBackwards

SpecScalar == Init /\ [][ScalarNext]_vars

----------------------------------------------------------------------------
(* Claims on the scalar engine, checked under SpecScalar                    *)

\* what the rule of node v computes for its i-th operand: the right-hand
\* side of the rule's statement for that operand
ScalarContribution(v, i) ==
  LET n == nodes[v]
  IN  CASE n.inputs.operation = "Addition" -> n.grad
        [] n.inputs.operation = "Multiplication" ->
             dMul(nodes[n.inputs.values[3 - i]].value, n.grad)
        [] n.inputs.operation = "Power" ->
             dMul(dMul(R(n.inputs.power), dPow(n.value, n.inputs.power - 1)),
                  n.grad)
        [] n.inputs.operation = "RELU" ->
             dMul(dBool(dPositive(n.value)), n.grad)

\* the contributions of the rule of v to node x, over the first i operands
RECURSIVE ScalarReceived(_, _, _)
ScalarReceived(v, x, i) ==
  IF i = 0 THEN R(0)
  ELSE dAdd(ScalarReceived(v, x, i - 1),
            IF nodes[v].inputs.values[i] = x THEN ScalarContribution(v, i)
            ELSE R(0))

\* C5: one application of backwardsOnce leaves the grad of each operand equal
\* to its grad before plus the contribution of the rule, for every operation
\* kind; no rule overwrites a grad.  Stated on the scalar engine.
C5_AccumulateOnly ==
  [][call'.op = "backwardsOnce" =>
       \A x \in Ptrs :
         nodes'[x].grad
           = dAdd(nodes[x].grad,
                  ScalarReceived(call'.root, x,
                                 Len(nodes[call'.root].inputs.values)))]_vars

----------------------------------------------------------------------------
(* Further claims on the tensor engine, checked under Spec                  *)

\* the sum of the elements of a buffer, from the first on
RECURSIVE Total(_)
Total(data) == IF data = <<>> THEN R(0) ELSE dAdd(Head(data), Total(Tail(data)))

\* the operand edges into node n from the nodes reachable from root
EdgesInto(root, n) ==
  {<<m, e>> \in Reach(nodes, root) \X (1..2) :
     e <= Len(InputsOf(m)) /\ InputsOf(m)[e] = n}

\* C11: for s = sum(a), s.value has shape [1] and is the sum of all elements
\* of a.value; the backward rule of s adds the single element of s.grad to
\* every element of a.grad and leaves a.grad of the shape of a.value.  In a
\* backwards(root) where s is the only consumer of a, the rule of s is the
\* only one that writes a.grad, and it reads the grad s has after the pass.
C11_SumBackward ==
  /\ [](\A s \in Ptrs : OpOf(s) = "Sum" =>
          /\ nodes[s].value.shape = <<1>>
          /\ nodes[s].value.data = <<Total(nodes[InputsOf(s)[1]].value.data)>>)
  /\ [][call'.op = "backwards" /\ fault' = "none" =>
          \A s \in Reach(nodes, call'.root) :
            (OpOf(s) = "Sum" /\ Cardinality(EdgesInto(call'.root, InputsOf(s)[1])) = 1) =>
              LET a == InputsOf(s)[1]
              IN  /\ nodes'[a].grad.shape = nodes[a].value.shape
                  /\ Len(nodes'[a].grad.data) = Len(nodes[a].value.data)
                  /\ \A k \in 1..Len(nodes[a].grad.data) :
                       nodes'[a].grad.data[k]
                         = dAdd(nodes[a].grad.data[k], nodes'[s].grad.data[1])]_vars

\* backwards() ran through s = sum(a) for a of several elements, s not the
\* root and s.grad not 1, and every element of a.grad holds s.grad
C11_Witness ==
  /\ call.op = "backwards"
  /\ fault = "none"
  /\ call.fresh
  /\ \E s \in Reach(nodes, call.root) :
       /\ OpOf(s) = "Sum"
       /\ s # call.root
       /\ Len(nodes[InputsOf(s)[1]].value.data) > 1
       /\ nodes[s].grad.data[1] \notin {R(0), R(1)}
       /\ \A k \in 1..Len(nodes[InputsOf(s)[1]].grad.data) :
            nodes[InputsOf(s)[1]].grad.data[k] = nodes[s].grad.data[1]

\* every operand of every node was constructed strictly before the node
OperandsEarlier ==
  \A n \in Ptrs : \A e \in 1..Len(InputsOf(n)) :
    InputsOf(n)[e] \in 1..(n - 1)

\* the length of the longest operand-edge path from n
RECURSIVE Height(_)
RECURSIVE HeightOver(_, _)
HeightOver(n, e) ==
  IF e = 0 THEN 0
  ELSE LET h == 1 + Height(InputsOf(n)[e])
           r == HeightOver(n, e - 1)
       IN  IF h > r THEN h ELSE r

Height(n) == HeightOver(n, Len(InputsOf(n)))

\* the number of invocations of zeroAllGrads() that root->zeroAllGrads()
\* makes: one for the node and those of each operand (no visited set)
RECURSIVE ZeroCalls(_)
RECURSIVE ZeroCallsOver(_, _)
ZeroCallsOver(n, e) ==
  IF e = 0 THEN 0 ELSE ZeroCallsOver(n, e - 1) + ZeroCalls(InputsOf(n)[e])

ZeroCalls(n) == 1 + ZeroCallsOver(n, Len(InputsOf(n)))

\* C12: after any sequence of graph functions every operand of a node was
\* constructed strictly before it, so operand paths from the n-th node have
\* fewer than n edges; hence for every root the recursion of zeroAllGrads
\* makes a bounded number of invocations (fewer than 2^root), buildTopo,
\* in backwards() and params(), returns a vector of at most all nodes, and
\* each call, once made, has returned.
C12_AcyclicTermination ==
  /\ OperandsEarlier
  /\ \A root \in Ptrs :
       /\ Height(root) < root
       /\ ZeroCalls(root) < 2 ^ root
       /\ Len(topoOf(nodes, root)) <= Len(nodes)
  /\ call.op \in {"backwards", "zeroAllGrads"} => Len(nodes) >= call.root
  /\ call.op = "params" => Len(call.result) <= Len(nodes)

\* a pass returned on a graph with a path of two edges and a shared node,
\* which zeroAllGrads() visits more than once
C12_Witness ==
  /\ call.op \in {"backwards", "zeroAllGrads"}
  /\ fault = "none"
  /\ Height(call.root) >= 2
  /\ ZeroCalls(call.root) > Cardinality(Reach(nodes, call.root))

----------------------------------------------------------------------------
(* SpecBackwards: backwards() statement by statement.  While the call runs, *)
(* `call` holds its locals: topo, and the nodes whose backwardsOnce() the   *)
(* for_each has called so far; nothing else runs until it returns.          *)

\* backwards() was entered and has not returned
InBackwards ==
  /\ call.op = "backwards()"
  /\ ~call.seeded \/ Len(call.applied) < Len(call.topo)

\* a for_each from the begin of topo in the place of rbegin
nextRuleForward(topo, applied) == topo[Len(applied) + 1]

\* the element the for_each over rbegin(topo) .. rend(topo) visits next
nextRule(topo, applied) == topo[Len(topo) - Len(applied)]

\* a graph function is called, outside backwards()
BackwardsBuild ==
  /\ ~InBackwards
  /\ \/ ValueMakeDouble \/ ValueMakeTensor \/ ValueAdd \/ ValueMul
     \/ ValuePower \/ ValueNeg \/ ValueDiv \/ ValueSub \/ ValueRelu
     \/ ValueMatmul \/ ValueSum

\* root->backwards() is entered: topo and visited are built
BackwardsEntered ==
  \E root \in Ptrs : \E g \in Garbage :
    /\ fault = "none"
    /\ ~InBackwards
    /\ npass < MaxPasses
    /\ npass' = npass + 1
    /\ call' = [op |-> "backwards()", root |-> root, g |-> g,
                topo |-> topoOf(nodes, root), seeded |-> FALSE, applied |-> <<>>]
    /\ UNCHANGED <<nodes, fault, ncalls, tvars, net>>

\* _grad = _grad.apply(1.0)
BackwardsSeeded ==
  /\ fault = "none"
  /\ InBackwards
  /\ ~call.seeded
  /\ nodes' = seed(nodes, call.root)
  /\ call' = [call EXCEPT !.seeded = TRUE]
  /\ UNCHANGED <<fault, ncalls, npass, tvars, net>>

\* one call of value->backwardsOnce() by the for_each
BackwardsRule ==
  /\ fault = "none"
  /\ InBackwards
  /\ call.seeded
  /\ \E v \in {nextRule(call.topo, call.applied)} :
       /\ \E st \in {backwardsOnce(nodes, v, call.g)} :
            /\ nodes' = st.ns
            /\ fault' = st.fault
       /\ call' = [call EXCEPT !.applied = Append(@, v)]
  /\ UNCHANGED <<ncalls, npass, tvars, net>>

BackwardsNext ==
  \/ BackwardsBuild
  \/ BackwardsEntered
  \/ BackwardsSeeded
  \/ BackwardsRule

SpecBackwards == Init /\ [][BackwardsNext]_vars

----------------------------------------------------------------------------
(* Claims on backwards(), checked under SpecBackwards                       *)

\* the nodes reachable from root that list n as an operand
ConsumersOf(root, n) == {m[1] : m \in EdgesInto(root, n)}

\* the set of the elements of a sequence
Range(seq) == {seq[i] : i \in 1..Len(seq)}

\* C13: in one backwards(root), root's grad is all ones before any rule
\* runs; every reachable node's rule is applied exactly once; a node's rule
\* is applied only after the rules of all reachable nodes that list it as
\* an operand; so no later step of the pass changes the grad a rule read.
C13_BackwardOrder ==
  /\ [](call.op = "backwards()" /\ fault = "none" =>
          /\ call.applied # <<>> => call.seeded
          /\ Range(call.applied) \subseteq Reach(nodes, call.root)
          /\ Cardinality(Range(call.applied)) = Len(call.applied)
          /\ ~InBackwards => Range(call.applied) = Reach(nodes, call.root)
          /\ \A i \in 1..Len(call.applied) :
               ConsumersOf(call.root, call.applied[i])
                 \subseteq Range(SubSeq(call.applied, 1, i - 1)))
  /\ [][call'.op = "backwards()" /\ fault' = "none" =>
          /\ (call'.seeded /\ call'.applied = <<>>) =>
               /\ nodes'[call'.root].grad.shape = nodes[call'.root].value.shape
               /\ \A k \in 1..Len(nodes'[call'.root].grad.data) :
                    nodes'[call'.root].grad.data[k] = R(1)
          /\ \A m \in Range(call'.applied) : nodes'[m].grad = nodes[m].grad]_vars

\* the second backwards() returned, from a graph of three or more reachable
\* nodes in which a node has two consumers
C13_Witness ==
  /\ call.op = "backwards()"
  /\ fault = "none"
  /\ ~InBackwards
  /\ npass = MaxPasses
  /\ Len(call.applied) >= 3
  /\ \E n \in Reach(nodes, call.root) :
       Cardinality(ConsumersOf(call.root, n)) >= 2

----------------------------------------------------------------------------
(* SpecReset: a graph is built, backwards() is called on some root, and     *)
(* then the pair root->zeroAllGrads(); root->backwards(); as in             *)
(* engineTensorTests, MaxPasses times at most.  npass counts the            *)
(* backwards() calls.                                                       *)

\* a graph function is called, before the first backwards()
ResetBuild ==
  /\ npass = 0
  /\ \/ ValueMakeDouble \/ ValueMakeTensor \/ ValueAdd \/ ValueMul
     \/ ValuePower \/ ValueNeg \/ ValueDiv \/ ValueSub \/ ValueRelu
     \/ ValueMatmul \/ ValueSum

\* root->backwards() on the graph as built
ResetFirstBackwards ==
  /\ npass = 0
  /\ ValueBackwards

\* d->zeroAllGrads(); after a backwards()
ResetZeroAllGrads ==
  \E root \in Ptrs :
    /\ fault = "none"
    /\ call.op = "backwards"
    /\ npass <= MaxPasses
    /\ nodes' = zeroAllGrads(nodes, root)
    /\ call' = [op |-> "zeroAllGrads", root |-> root,
                fresh |-> \A x \in Reach(nodes, root) : AllZero(nodes[x].grad)]
    /\ UNCHANGED <<fault, ncalls, npass, tvars, net>>

\* d->backwards(); on the root just reset; dirty: the reset had grads to clear
ResetBackwards ==
  \E g \in Garbage :
    /\ fault = "none"
    /\ call.op = "zeroAllGrads"
    /\ npass <= MaxPasses
    /\ npass' = npass + 1
    /\ \E st \in {backwards(nodes, call.root, g)} :
         /\ nodes' = st.ns
         /\ fault' = st.fault
    /\ call' = [op |-> "backwards", root |-> call.root, fresh |-> TRUE,
                dirty |-> ~call.fresh]
    /\ UNCHANGED <<ncalls, tvars, net>>

ResetNext ==
  \/ ResetBuild
  \/ ResetFirstBackwards
  \/ ResetZeroAllGrads
  \/ ResetBackwards

SpecReset == Init /\ [][ResetNext]_vars

----------------------------------------------------------------------------
(* Claims on the reset, checked under SpecReset                             *)

\* the nodes with the grads they had when constructed
FreshlyBuilt ==
  [n \in 1..Len(nodes) |-> [nodes[n] EXCEPT !.grad = zeros(nodes[n].value.shape)]]

\* C14: whatever the grads were, after zeroAllGrads(root); backwards(root)
\* every node reachable from root holds a grad that one backwards(root) on
\* the freshly built graph produces; so repeating the pair changes nothing.
C14_ReproducibleAfterReset ==
  (call.op = "backwards" /\ "dirty" \in DOMAIN call /\ fault = "none") =>
    \E g \in Garbage :
      LET once == backwards(FreshlyBuilt, call.root, g)
      IN  /\ once.fault = "none"
          /\ \A n \in Reach(nodes, call.root) :
               nodes[n].grad = once.ns[n].grad

\* the pair ran a second time, on a root of three or more reachable nodes,
\* one of them shared, whose grads the backwards() before had made non-zero
C14_Witness ==
  /\ call.op = "backwards"
  /\ npass = MaxPasses + 1
  /\ "dirty" \in DOMAIN call
  /\ call.dirty
  /\ fault = "none"
  /\ Cardinality(Reach(nodes, call.root)) >= 3
  /\ \E n \in Reach(nodes, call.root) :
       /\ Cardinality(EdgesInto(call.root, n)) >= 2
       /\ ~AllZero(nodes[n].grad)

----------------------------------------------------------------------------
(* Neuron, Layer and MultilayerPerceptron (src/src/nn.hpp)                  *)

\* values uniform_real_distribution<double>(-1.0, 1.0) can give
Weights == {Frac(1, 2), Frac(-1, 2)}

\* generateWeights(numberOfInputs): one Value::make(random) per input
RECURSIVE generateWeights(_, _, _)
generateWeights(ns, numberOfInputs, drawn) ==
  IF numberOfInputs = 0 THEN [ns |-> ns, result |-> <<>>]
  ELSE LET r   == generateWeights(ns, numberOfInputs - 1, drawn)
           ns1 == makeShared(r.ns, ValueOfDouble(drawn[numberOfInputs], NoInputs))
       IN  [ns |-> ns1, result |-> Append(r.result, Len(ns1))]

\* Neuron(numberOfInputs): _weights(generateWeights(...)), _bias(make(0.0))
Neuron(ns, numberOfInputs, drawn) ==
  LET w   == generateWeights(ns, numberOfInputs, drawn)
      ns1 == makeShared(w.ns, ValueOfDouble(R(0), NoInputs))
  IN  [ns |-> ns1, neuron |-> [weights |-> w.result, bias |-> Len(ns1)]]

\* Layer(numberOfInputs, numberOfOutputs): _neurons(numberOfOutputs,
\* Neuron(numberOfInputs)) makes one Neuron and fills the vector with copies
\* of it; the copy of a Neuron copies its ValuePtrs
Layer(ns, numberOfInputs, numberOfOutputs, drawn) ==
  LET n == Neuron(ns, numberOfInputs, drawn)
  IN  [ns |-> n.ns, layer |-> [i \in 1..numberOfOutputs |-> n.neuron]]

\* MultilayerPerceptron(neuronsPerLayer): the first i layers pushed back
RECURSIVE pushLayers(_, _, _, _)
pushLayers(ns, neuronsPerLayer, drawn, i) ==
  IF i = 0 THEN [ns |-> ns, layers |-> <<>>]
  ELSE LET r == pushLayers(ns, neuronsPerLayer, drawn, i - 1)
           l == Layer(r.ns, neuronsPerLayer[i], neuronsPerLayer[i + 1], drawn[i])
       IN  [ns |-> l.ns, layers |-> Append(r.layers, l.layer)]

MultilayerPerceptron(ns, neuronsPerLayer, drawn) ==
  pushLayers(ns, neuronsPerLayer, drawn, Len(neuronsPerLayer) - 1)

\* params.insert(params.end(), ...) over a sequence of vectors
RECURSIVE inserted(_)
inserted(vectors) ==
  IF vectors = <<>> THEN <<>> ELSE Head(vectors) \o inserted(Tail(vectors))

\* Neuron::parameters(), Layer::parameters(),
\* MultilayerPerceptron::parameters()
neuronParameters(neuron) == Append(neuron.weights, neuron.bias)

layerParameters(layer) ==
  inserted([i \in 1..Len(layer) |-> neuronParameters(layer[i])])

mlpParameters(layers) ==
  inserted([l \in 1..Len(layers) |-> layerParameters(layers[l])])

----------------------------------------------------------------------------
(* SpecNN: a Layer or a MultilayerPerceptron is made, its parameters are    *)
(* listed and parameter values are overwritten, as nnTests1 does            *)

\* Layer(numberOfInputs, numberOfOutputs)
NNLayer ==
  \E numberOfInputs \in 1..MaxWidth, numberOfOutputs \in 1..MaxWidth :
    \E drawn \in [1..MaxWidth -> Weights] :
      /\ net = <<>>
      /\ \E l \in {Layer(nodes, numberOfInputs, numberOfOutputs, drawn)} :
           /\ nodes' = l.ns
           /\ net' = <<l.layer>>
      /\ call' = [op |-> "Layer", numberOfInputs |-> numberOfInputs,
                  numberOfOutputs |-> numberOfOutputs]
      /\ UNCHANGED <<fault, ncalls, npass, tvars>>

\* MultilayerPerceptron(neuronsPerLayer)
NNMultilayerPerceptron ==
  \E neuronsPerLayer \in UNION {[1..n -> 1..MaxWidth] : n \in 2..3} :
    \E drawn \in [1..2 -> [1..MaxWidth -> Weights]] :
      /\ net = <<>>
      /\ \E m \in {MultilayerPerceptron(nodes, neuronsPerLayer, drawn)} :
           /\ nodes' = m.ns
           /\ net' = m.layers
      /\ call' = [op |-> "MultilayerPerceptron", neuronsPerLayer |-> neuronsPerLayer]
      /\ UNCHANGED <<fault, ncalls, npass, tvars>>

\* parameters() of the Layer or the MultilayerPerceptron made
NNParameters ==
  /\ net # <<>>
  /\ call' = [op |-> "parameters", result |-> mlpParameters(net)]
  /\ UNCHANGED <<nodes, net, fault, ncalls, npass, tvars>>

\* the _value of one parameter of one neuron is overwritten
NNUpdate ==
  \E l \in 1..Len(net) :
    \E i \in 1..Len(net[l]) :
      \E j \in 1..Len(neuronParameters(net[l][i])) : \E v \in Doubles :
        /\ npass < MaxPasses
        /\ npass' = npass + 1
        /\ nodes' = [nodes EXCEPT ![neuronParameters(net[l][i])[j]].value =
                       assignDouble(@, v)]
        /\ call' = [op |-> "_value=", layer |-> l, neuron |-> i, parameter |-> j]
        /\ UNCHANGED <<net, fault, ncalls, tvars>>

NNNext ==
  \/ NNLayer
  \/ NNMultilayerPerceptron
  \/ NNParameters
  \/ NNUpdate

SpecNN == Init /\ [][NNNext]_vars

----------------------------------------------------------------------------
(* Claims on the network, checked under SpecNN                              *)

\* C15: the neurons of a Layer(numberOfInputs, numberOfOutputs) have
\* pairwise distinct weight and bias nodes, so parameters() of the Layer
\* lists numberOfOutputs * (numberOfInputs + 1) nodes, each once, and so
\* does parameters() of the MultilayerPerceptron over its layers; and
\* overwriting the value of a parameter of one neuron leaves the values of
\* the parameters of every other neuron as they were.
C15_DistinctParameters ==
  /\ [](\A l \in 1..Len(net) :
          LET ps == layerParameters(net[l])
          IN  /\ Len(ps) = Len(net[l]) * (Len(net[l][1].weights) + 1)
              /\ Cardinality(Range(ps)) = Len(ps))
  /\ [](Cardinality(Range(mlpParameters(net))) = Len(mlpParameters(net)))
  /\ [](call.op = "parameters" =>
          Cardinality(Range(call.result)) = Len(call.result))
  /\ [][call'.op = "_value=" =>
          \A l \in 1..Len(net) : \A i \in 1..Len(net[l]) :
            <<l, i>> # <<call'.layer, call'.neuron>> =>
              \A x \in Range(neuronParameters(net[l][i])) :
                nodes'[x].value = nodes[x].value]_vars

====
